---------------------------- MODULE Spec2Model ----------------------------
(***************************************************************************)
(* State-machine model of astrbot_plugin_llm_executor (src/main.py):      *)
(* the handler index (_build_handler_cache), the policy gate              *)
(* (_can_execute), the message synthesizer (_build_message_components),   *)
(* the identity wrapper (BotIdentityEventWrapper) and the invocation      *)
(* sandbox with result fan-out (execute_command).                         *)
(*                                                                         *)
(* Strings are modelled as sequences of one-character strings, so that    *)
(* startswith("/"), [1:], strip(), split() and isdigit() are computed and *)
(* not assumed.                                                            *)
(***************************************************************************)
EXTENDS Integers, Sequences, FiniteSets, TLC

VARIABLES
    config,                 \* self.enabled, whitelist, blacklist, ... (main.py 71-78)
    activated,              \* star.activated of every extension of the host
    star_handlers_registry, \* the host's global handler registry (a list)
    handler_cache,          \* self._handler_cache: canonical name -> record
    alias_to_command,       \* self._alias_to_command: alias -> canonical name
    scan,                   \* history: the inputs of the last scan pass
    event,                  \* the inbound AstrMessageEvent shared by the calls
    message_obj,            \* heap: the objects event.message_obj may refer to
    inv,                    \* per call of execute_command: locals, position, payload
    listing                 \* the last payload of list_executable_commands

vars == <<config, activated, star_handlers_registry, handler_cache,
          alias_to_command, scan, event, message_obj, inv, listing>>

-----------------------------------------------------------------------------
(* Bounds of the model *)

\* longest handler registry the environment builds
MaxHandlers == 3
\* most results one handler run produces
MaxResults == 2
\* config forward_threshold, scaled down from the default 1500 to the text
\* lengths the model produces
ForwardThreshold == 2

-----------------------------------------------------------------------------
(* Strings *)

None == "None"

\* str.startswith("/") followed by [1:]  (main.py 167-168, 184-185, 204-205)
StripSlash(s) == IF Len(s) > 0 /\ s[1] = "/" THEN Tail(s) ELSE s

IsSpace(c) == c = " "

RECURSIVE LStrip(_)
LStrip(s) == IF Len(s) > 0 /\ IsSpace(s[1]) THEN LStrip(Tail(s)) ELSE s

RECURSIVE RStrip(_)
RStrip(s) ==
    IF Len(s) > 0 /\ IsSpace(s[Len(s)]) THEN RStrip(SubSeq(s, 1, Len(s) - 1)) ELSE s

\* str.strip()  (main.py 443-446)
Strip(s) == RStrip(LStrip(s))

\* the names used below
nX  == <<"x">>
nSX == <<"/", "x">>
nSY == <<"/", "y">>
nP  == <<"p">>
nSP == <<"/", "p">>
nQ  == <<"q">>
nG  == <<"g">>
nZ  == <<"z">>
nA  == <<"a">>
nB  == <<"b">>
nE  == << >>
\* command_name = None: no command or group filter seen yet (main.py 143)
NoName == <<"<None>">>

-----------------------------------------------------------------------------
(* The host: extensions and the handler registry *)

\* context.get_all_stars(): name and module_path of every extension, in order
Stars == <<
    [name |-> "fishing", module_path |-> "m1"],
    [name |-> "tools",   module_path |-> "m2"],
    [name |-> "astrbot", module_path |-> "m0"],
    [name |-> "nomod",   module_path |-> None] >>

StarNames == {Stars[i].name : i \in DOMAIN Stars}

\* the extensions the environment loads and unloads
Togglable == {"fishing", "tools"}

\* skip_plugins  (main.py 112-117)
skip_plugins == {"astrbot", "astrbot_plugin_llm_executor",
                 "astrbot_plugin_command_query", "astrbot-reminder"}

\* filters a handler declares
NoAlias == [kind |-> "none", elems |-> {}]
CommandFilter(name, alias) == [type |-> "Command", name |-> name, alias |-> alias]
CommandGroupFilter(name) == [type |-> "Group", name |-> name, alias |-> NoAlias]
PermissionTypeFilter == [type |-> "Permission", name |-> nE, alias |-> NoAlias]
OtherFilter == [type |-> "Other", name |-> nE, alias |-> NoAlias]
AliasSet(S) == [kind |-> "set", elems |-> S]
AliasList(S) == [kind |-> "list", elems |-> S]
AliasTuple(S) == [kind |-> "tuple", elems |-> S]

\* StarHandlerMetadata: proto is the shape of handler.handler, an async
\* generator function ("gen") or a coroutine function ("coro")
Handler(id, mp, desc, filters, proto) ==
    [id |-> id, handler_module_path |-> mp, desc |-> desc,
     event_filters |-> filters, proto |-> proto]


\* the handlers extensions may register
HandlerPool == {
    Handler("h1", "m1", "d1", <<CommandFilter(nX, AliasSet({nP}))>>, "gen"),
    Handler("h2", "m1", "",   <<CommandFilter(nSY, AliasList({nSP, nQ}))>>, "coro"),
    Handler("h3", "m2", "d3", <<PermissionTypeFilter, CommandFilter(nX, AliasSet({nQ}))>>, "gen"),
    Handler("h4", "m0", "d4", <<CommandFilter(nZ, NoAlias)>>, "gen"),
    Handler("h5", "m2", "d5",
            <<CommandFilter(nB, NoAlias), CommandGroupFilter(nG), OtherFilter>>, "gen"),
    Handler("h6", "m1", "d6", <<PermissionTypeFilter>>, "gen"),
    Handler("h7", "m2", "d7", <<CommandFilter(nP, AliasTuple({nZ}))>>, "coro") }

-----------------------------------------------------------------------------
(* Dictionaries: functions with a finite domain *)

EmptyDict == << >>

Put(d, k, v) == [x \in DOMAIN d \cup {k} |-> IF x = k THEN v ELSE d[x]]

\* dict.get(k, default)
Get(d, k, default) == IF k \in DOMAIN d THEN d[k] ELSE default

-----------------------------------------------------------------------------
(* Handler index: _build_handler_cache  (main.py 94-186) *)

\* main.py 119-129: module_path -> plugin name of the active, non-skipped
\* extensions; a later extension with the same module_path replaces an earlier
RECURSIVE ModuleToStarFrom(_, _, _)
ModuleToStarFrom(act, i, m) ==
    IF i > Len(Stars) THEN m
    ELSE LET star == Stars[i] IN
         ModuleToStarFrom(act, i + 1,
            IF ~act[star.name] THEN m
            ELSE IF star.name \in skip_plugins \/ star.module_path = None THEN m
            ELSE Put(m, star.module_path, star.name))

ModuleToStar(act) == ModuleToStarFrom(act, 1, EmptyDict)

\* main.py 143-162: one pass over handler.event_filters; a later command or
\* group filter replaces command_name, aliases are replaced only by a
\* non-empty set or list
RECURSIVE ScanFiltersFrom(_, _, _)
ScanFiltersFrom(fs, i, acc) ==
    IF i > Len(fs) THEN acc
    ELSE LET f == fs[i] IN
         ScanFiltersFrom(fs, i + 1,
            IF f.type = "Command"
            THEN [acc EXCEPT !.command_name = f.name,
                             !.aliases = IF f.alias.elems # {}
                                            /\ f.alias.kind \in {"set", "list"}
                                         THEN f.alias.elems ELSE @]
            ELSE IF f.type = "Group" THEN [acc EXCEPT !.command_name = f.name]
            ELSE IF f.type = "Permission" THEN [acc EXCEPT !.is_admin = TRUE]
            ELSE acc)

ScanFilters(h) ==
    ScanFiltersFrom(h.event_filters, 1,
                    [command_name |-> NoName, aliases |-> {}, is_admin |-> FALSE])

\* main.py 145
Description(h) == IF h.desc = "" THEN "no description" ELSE h.desc

\* main.py 186: the canonical name one alias entry points at
AliasTargetUnstripped(found) == found.command_name

AliasTarget(found) == StripSlash(found.command_name)

\* an alias index in which the first declaration of an alias wins
IndexAliasesFirstWins(aliasmap, found) ==
    LET keys == {StripSlash(a) : a \in found.aliases} IN
    [a \in DOMAIN aliasmap \cup keys |->
        IF a \in DOMAIN aliasmap THEN aliasmap[a] ELSE AliasTarget(found)]

\* main.py 183-186: every alias, slash-stripped, points at the canonical name
IndexAliases(aliasmap, found) ==
    LET keys == {StripSlash(a) : a \in found.aliases} IN
    [a \in DOMAIN aliasmap \cup keys |->
        IF a \in keys THEN AliasTarget(found) ELSE aliasmap[a]]

\* main.py 132-186, the body of the loop over the registry for one handler
IndexHandler(idx, h, m2s) ==
    IF h.handler_module_path \notin DOMAIN m2s THEN idx
    ELSE LET found == ScanFilters(h) IN
         IF found.command_name = NoName \/ found.command_name = nE THEN idx
         ELSE LET command_name == StripSlash(found.command_name)
                  handler_info ==
                      [command     |-> command_name,
                       description |-> Description(h),
                       plugin      |-> m2s[h.handler_module_path],
                       aliases     |-> found.aliases,
                       is_admin    |-> found.is_admin,
                       handler     |-> h,
                       module_path |-> h.handler_module_path]
              IN [cache |-> Put(idx.cache, command_name, handler_info),
                  alias |-> IndexAliases(idx.alias, found)]

RECURSIVE IndexFrom(_, _, _, _)
IndexFrom(reg, i, m2s, idx) ==
    IF i > Len(reg) THEN idx
    ELSE IndexFrom(reg, i + 1, m2s, IndexHandler(idx, reg[i], m2s))

EmptyIndex == [cache |-> EmptyDict, alias |-> EmptyDict]

\* a rebuild that gives up after the first handler when listing fails
BuildHandlerCacheInterrupted(reg, act, listing_fails) ==
    IF listing_fails THEN IndexFrom(SubSeq(reg, 1, 1), 1, ModuleToStar(act), EmptyIndex)
    ELSE IndexFrom(reg, 1, ModuleToStar(act), EmptyIndex)

\* _build_handler_cache as a whole: both dictionaries are cleared, then
\* refilled unless listing the extensions fails or none is active
BuildHandlerCache(reg, act, listing_fails) ==
    IF listing_fails THEN EmptyIndex
    ELSE IF \A i \in DOMAIN Stars : ~act[Stars[i].name] THEN EmptyIndex
    ELSE IndexFrom(reg, 1, ModuleToStar(act), EmptyIndex)

\* a lazy rebuild that is never triggered
NeverEmpty(cache) == FALSE

\* `not self._handler_cache` (main.py 471, 700): the trigger of a lazy rebuild
CacheIsEmpty(cache) == DOMAIN cache = {}

\* resolution as _can_execute and execute_command do it (main.py 204-214,
\* 484-487): strip the slash, alias index first, then the name itself
Canonical(command, aliasmap) ==
    Get(aliasmap, StripSlash(command), StripSlash(command))

Resolves(command, cache, aliasmap) ==
    Canonical(command, aliasmap) \in DOMAIN cache

\* the record a resolving name yields
Resolve(command, cache, aliasmap) == cache[Canonical(command, aliasmap)]


-----------------------------------------------------------------------------
(* Policy gate: _can_execute  (main.py 188-239) *)

Reason(msg, command) == [msg |-> msg, command |-> command]

\* a mis-wired enable test
EnabledIgnored(cfg) == TRUE

\* main.py 200
Enabled(cfg) == cfg.enabled

\* a whitelist that looks at the canonical name only
WhitelistCanonicalOnly(cfg, command, actual_command) ==
    cfg.whitelist = {} \/ actual_command \in cfg.whitelist

\* main.py 217-219: command is the slash-stripped name given
WhitelistPasses(cfg, command, actual_command) ==
    cfg.whitelist = {}
    \/ ~(actual_command \notin cfg.whitelist /\ command \notin cfg.whitelist)

\* main.py 222-224
BlacklistHits(cfg, command, actual_command) ==
    cfg.blacklist # {}
    /\ (actual_command \in cfg.blacklist \/ command \in cfg.blacklist)

\* an admin test that forgets the admin_users list
AdminGateNoUsers(cfg, user_id, command) ==
    IF ~cfg.allow_admin_commands
    THEN [ok |-> FALSE, reason |-> Reason("need_admin", command)]
    ELSE [ok |-> TRUE, reason |-> Reason("ok", nE)]

\* main.py 229-239, for a record with is_admin set; user_id is
\* str(event.get_sender_id()), and get_sender_id() returns a str
AdminGate(cfg, user_id, command) ==
    IF user_id \in cfg.admin_users
    THEN [ok |-> TRUE, reason |-> Reason("ok_admin_user", nE)]
    ELSE IF ~cfg.allow_admin_commands
    THEN [ok |-> FALSE, reason |-> Reason("need_admin", command)]
    ELSE [ok |-> TRUE, reason |-> Reason("ok", nE)]

\* the gate with the list checks made before the command is resolved
CanExecuteListsFirst(given, user_id, cfg, cache, aliasmap) ==
    LET command == StripSlash(given)
        actual_command == Get(aliasmap, command, command)
    IN  IF ~Enabled(cfg)
        THEN [ok |-> FALSE, reason |-> Reason("disabled", nE)]
        ELSE IF ~WhitelistPasses(cfg, command, actual_command)
        THEN [ok |-> FALSE, reason |-> Reason("not_whitelisted", command)]
        ELSE IF BlacklistHits(cfg, command, actual_command)
        THEN [ok |-> FALSE, reason |-> Reason("blacklisted", command)]
        ELSE IF actual_command \notin DOMAIN cache
        THEN [ok |-> FALSE, reason |-> Reason("not_found", command)]
        ELSE IF cache[actual_command].is_admin
        THEN AdminGate(cfg, user_id, command)
        ELSE [ok |-> TRUE, reason |-> Reason("ok", nE)]

\* _can_execute(command, event)
CanExecute(given, user_id, cfg, cache, aliasmap) ==
    LET command == StripSlash(given)
        actual_command == Get(aliasmap, command, command)
    IN  IF ~Enabled(cfg)
        THEN [ok |-> FALSE, reason |-> Reason("disabled", nE)]
        ELSE IF actual_command \notin DOMAIN cache
        THEN [ok |-> FALSE, reason |-> Reason("not_found", command)]
        ELSE IF ~WhitelistPasses(cfg, command, actual_command)
        THEN [ok |-> FALSE, reason |-> Reason("not_whitelisted", command)]
        ELSE IF BlacklistHits(cfg, command, actual_command)
        THEN [ok |-> FALSE, reason |-> Reason("blacklisted", command)]
        ELSE IF cache[actual_command].is_admin
        THEN AdminGate(cfg, user_id, command)
        ELSE [ok |-> TRUE, reason |-> Reason("ok", nE)]


-----------------------------------------------------------------------------
(* Message synthesizer: _build_message_components  (main.py 302-403) *)

\* message segments (astrbot.core.message.components)
Plain(text) == [type |-> "Plain", text |-> text, qq |-> None, chain |-> << >>]
At(qq) == [type |-> "At", text |-> << >>, qq |-> qq, chain |-> << >>]
Image(url) == [type |-> "Image", text |-> url, qq |-> None, chain |-> << >>]
Reply(chain) == [type |-> "Reply", text |-> << >>, qq |-> None, chain |-> chain]

Digits == <<"0", "1", "2", "3", "4", "5", "6", "7", "8", "9">>

IsDigitChar(c) == \E d \in DOMAIN Digits : Digits[d] = c

DigitValue(c) == (CHOOSE d \in DOMAIN Digits : Digits[d] = c) - 1

\* str.isdigit() on ASCII text
IsDigit(s) == Len(s) > 0 /\ \A i \in DOMAIN s : IsDigitChar(s[i])

\* int(s) for a string of decimal digits
RECURSIVE ParseInt(_)
ParseInt(s) ==
    IF Len(s) = 0 THEN 0
    ELSE 10 * ParseInt(SubSeq(s, 1, Len(s) - 1)) + DigitValue(s[Len(s)])

\* str(i) for i >= 0
RECURSIVE IntToStr(_)
IntToStr(i) ==
    IF i < 10 THEN <<Digits[i + 1]>> ELSE IntToStr(i \div 10) \o <<Digits[(i % 10) + 1]>>

\* pat in s
Contains(s, pat) ==
    \E k \in 1..(Len(s) - Len(pat) + 1) : SubSeq(s, k, k + Len(pat) - 1) = pat

\* str.split(): the maximal runs of non-space characters, in order
RECURSIVE SplitFrom(_, _, _, _)
SplitFrom(s, i, word, out) ==
    IF i > Len(s) THEN (IF word = << >> THEN out ELSE Append(out, word))
    ELSE IF IsSpace(s[i])
    THEN SplitFrom(s, i + 1, << >>, IF word = << >> THEN out ELSE Append(out, word))
    ELSE SplitFrom(s, i + 1, Append(word, s[i]), out)

Split(s) == SplitFrom(s, 1, << >>, << >>)

\* " ".join(words)
RECURSIVE JoinWith(_, _)
JoinWith(words, sep) ==
    IF Len(words) = 0 THEN << >>
    ELSE IF Len(words) = 1 THEN words[1]
    ELSE words[1] \o sep \o JoinWith(Tail(words), sep)

\* main.py 339-343
HasPlaceholders(args, at_qq_list) ==
    \E i \in 0..(Len(at_qq_list) - 1) : Contains(args, <<"@">> \o IntToStr(i))

\* main.py 357
IsPlaceholderToken(part) ==
    Len(part) > 1 /\ part[1] = "@" /\ IsDigit(Tail(part))

\* a loop that adds the mention without flushing the buffered text first
RECURSIVE PlaceholderLoopLateFlush(_, _, _, _)
PlaceholderLoopLateFlush(parts, i, at_qq_list, st) ==
    IF i > Len(parts)
    THEN (IF st.text_buffer # << >>
          THEN Append(st.components, Plain(<<" ">> \o JoinWith(st.text_buffer, <<" ">>)))
          ELSE st.components)
    ELSE LET part == parts[i] IN
         PlaceholderLoopLateFlush(parts, i + 1, at_qq_list,
            IF IsPlaceholderToken(part) /\ ParseInt(Tail(part)) < Len(at_qq_list)
            THEN [st EXCEPT !.components =
                               Append(@, At(at_qq_list[ParseInt(Tail(part)) + 1]))]
            ELSE [st EXCEPT !.text_buffer = Append(@, part)])

\* main.py 355-377: st = [components, text_buffer]
RECURSIVE PlaceholderLoop(_, _, _, _)
PlaceholderLoop(parts, i, at_qq_list, st) ==
    IF i > Len(parts)
    THEN (IF st.text_buffer # << >>
          THEN Append(st.components, Plain(<<" ">> \o JoinWith(st.text_buffer, <<" ">>)))
          ELSE st.components)
    ELSE LET part == parts[i] IN
         PlaceholderLoop(parts, i + 1, at_qq_list,
            IF IsPlaceholderToken(part) /\ ParseInt(Tail(part)) < Len(at_qq_list)
            THEN LET flushed ==
                         IF st.text_buffer # << >>
                         THEN Append(st.components,
                                     Plain(<<" ">> \o JoinWith(st.text_buffer, <<" ">>)))
                         ELSE st.components
                 IN [components |-> Append(flushed, At(at_qq_list[ParseInt(Tail(part)) + 1])),
                     text_buffer |-> << >>]
            ELSE [st EXCEPT !.text_buffer = Append(@, part)])

\* one At per target, in list order (main.py 381-385, 396-401)
AtAll(at_qq_list) == [i \in DOMAIN at_qq_list |-> At(at_qq_list[i])]

\* _build_message_components(command, args, at_qq_list, reply_image_url)
BuildMessageComponents(command, args, at_qq_list, reply_image_url) ==
    LET head == IF reply_image_url # << >>
                THEN <<Reply(<<Image(reply_image_url)>>)>> ELSE << >>
        cmd == <<"/">> \o command
    IN  IF at_qq_list # << >> /\ args # << >>
        THEN IF HasPlaceholders(args, at_qq_list)
             THEN PlaceholderLoop(Split(args), 1, at_qq_list,
                    [components |-> Append(head, Plain(cmd)), text_buffer |-> << >>])
             ELSE Append(head, Plain(cmd)) \o AtAll(at_qq_list)
                    \o <<Plain(<<" ">> \o args)>>
        ELSE Append(head, Plain(IF args # << >> THEN cmd \o <<" ">> \o args ELSE cmd))
                \o AtAll(at_qq_list)


-----------------------------------------------------------------------------
(* Result normalizer: _extract_content_from_result  (main.py 261-300) *)

\* what a handler produces: a MessageEventResult with a chain, a bare string,
\* or None
ChainResult(chain) == [kind |-> "chain", chain |-> chain, text |-> << >>]
StrResult(text) == [kind |-> "str", chain |-> << >>, text |-> text]
NoneResult == [kind |-> "none", chain |-> << >>, text |-> << >>]

\* main.py 277-290 for one component of a chain
RECURSIVE ExtractChain(_, _, _)
ExtractChain(chain, i, acc) ==
    IF i > Len(chain) THEN acc
    ELSE LET comp == chain[i] IN
         ExtractChain(chain, i + 1,
            IF comp.type = "Plain"
            THEN [acc EXCEPT !.texts = Append(@, comp.text)]
            ELSE IF comp.type = "Image" /\ comp.text # << >>
            THEN [acc EXCEPT !.images = Append(@, comp.text)]
            ELSE acc)

ExtractContentFromResult(result) ==
    IF result.kind = "chain" /\ result.chain # << >>
    THEN ExtractChain(result.chain, 1, [texts |-> << >>, images |-> << >>])
    ELSE IF result.kind = "str"
    THEN [texts |-> <<result.text>>, images |-> << >>]
    ELSE [texts |-> << >>, images |-> << >>]

\* sum(len(text) for text in result_texts)  (main.py 577)
RECURSIVE TotalLength(_)
TotalLength(texts) ==
    IF Len(texts) = 0 THEN 0 ELSE Len(texts[1]) + TotalLength(Tail(texts))

\* main.py 589-592: the chains of the results that have one, concatenated
RECURSIVE AllComponents(_)
AllComponents(results) ==
    IF Len(results) = 0 THEN << >>
    ELSE (IF results[1].kind = "chain" THEN results[1].chain ELSE << >>)
         \o AllComponents(Tail(results))

\* main.py 590-592: the results whose chain goes into the combined Node, by
\* their position in results_to_send
MergedResults(results) ==
    {i \in DOMAIN results : results[i].kind = "chain" /\ results[i].chain # << >>}

\* main.py 578-582
UseForward(cfg, ev, result_texts) ==
    /\ cfg.enable_forward
    /\ TotalLength(result_texts) > cfg.forward_threshold
    /\ ev.platform_name = "aiocqhttp"

-----------------------------------------------------------------------------
(* The event and the identity wrapper  (main.py 13-34) *)

\* setattr(event, name, value) on the real event
EventSetAttr(ev, name, value) == [ev EXCEPT ![name] = value]

\* the attributes of the event the model keeps; sender_id is what the event's
\* own get_sender_id() returns
EventAttrs == {"message_str", "message_obj", "sender_id", "platform_name"}

\* the wrapper's own fields (main.py 18-19, 31)
WrapperOwn == {"_original_event", "_bot_user_id"}

\* a wrapper that keeps what is written through it to itself
WrapperSetAttrLocal(ev, name, value) == ev

\* BotIdentityEventWrapper.__setattr__ (main.py 29-34): every name but the
\* wrapper's own two fields is set on the wrapped event
WrapperSetAttr(ev, name, value) ==
    IF name \in WrapperOwn THEN ev ELSE EventSetAttr(ev, name, value)

\* an attribute read on the wrapper (main.py 21-27): get_sender_id is the
\* wrapper's own method, _bot_user_id its own field, every other name is
\* looked up on the wrapped event
WrapperGetAttr(ev, bot_user_id, name) ==
    IF name \in {"get_sender_id", "_bot_user_id"} THEN bot_user_id ELSE ev[name]

\* event.<name> = value inside execute_command, where event is the wrapper
\* when as_bot is set
SetAttr(ev, wrapped, name, value) ==
    IF wrapped THEN WrapperSetAttr(ev, name, value) ELSE EventSetAttr(ev, name, value)

\* get_sender_id() as the invoked handler sees it  (main.py 21-23)
GetSenderId(ev, wrapped, bot_user_id) == IF wrapped THEN bot_user_id ELSE ev.sender_id

\* a gate that runs on the wrapper of an as_bot call
GateSenderIdWrapped(ev, as_bot, bot_user_id) == GetSenderId(ev, as_bot, bot_user_id)

\* event.get_sender_id() as _can_execute reads it (main.py 228): the gate runs
\* at line 475, before the wrapper of an as_bot call is created at line 519
GateSenderId(ev, as_bot, bot_user_id) == GetSenderId(ev, FALSE, bot_user_id)

\* the segment list event.message_obj holds; NoBody when there is no object
NoBody == <<[type |-> "<no message_obj>", text |-> << >>, qq |-> None, chain |-> << >>]>>

HeldBody(ev, heap) == IF ev.message_obj = None THEN NoBody ELSE heap[ev.message_obj].message


-----------------------------------------------------------------------------
(* Invocation sandbox: execute_command  (main.py 405-677) *)

Procs == {"t1", "t2"}

AllActive == [n \in StarNames |-> TRUE]

\* no scan pass yet: the index is empty, as after a pass that failed
NoScan == [registry |-> << >>, activated |-> AllActive, failed |-> TRUE]

NoHandler == Handler("none", None, "", << >>, "gen")

NoReason == Reason("none", nE)

\* the JSON payload returned to the agent; command = NoName when the payload
\* has no "command" key
Response(success, command, args, texts, images, executed_as, error) ==
    [success |-> success, command |-> command, args |-> args,
     result |-> JoinWith(texts, <<"\n">>), images |-> images,
     executed_as |-> executed_as, error |-> error]

NoResponse == Response(FALSE, NoName, << >>, << >>, << >>, "", NoReason)

\* a denial that reports success
DenialAsSuccess(reason) == Response(TRUE, NoName, << >>, << >>, << >>, "", reason)

\* main.py 465-468, 478-481, 490-493, 498-501
Denial(reason) == Response(FALSE, NoName, << >>, << >>, << >>, "", reason)

\* the locals of one call, its position, and history of what it did:
\*   calls    how many times handler.handler(event) was called
\*   sends    the event.send calls, in order: what was sent (the combined
\*            forward or one result), the results it carried, its outcome
\*   raised   the exceptions raised inside the call, in order: the handler's
\*            own (TypeError, Exception), "NotAsyncIterable" (async for over a
\*            coroutine), "NotAwaitable" (await of an async generator), "node"
\*            (building the combined Node) and "send" (event.send)
\*   seen     the scan pass whose index the gate and the resolution read
\*   entry_*  the event's content when the call was entered
\*   exit_*   the event's content when the call returned
Idle == [pc |-> "idle",
         command |-> << >>, args |-> << >>, at_qq_list |-> << >>,
         reply_image_url |-> << >>, as_bot |-> FALSE,
         actual_command |-> NoName, handler |-> NoHandler,
         original_msg |-> << >>, original_message_obj |-> None, wrapped |-> FALSE,
         results_to_send |-> << >>, result_texts |-> << >>, result_images |-> << >>,
         produced |-> 0, send_i |-> 0, fallback |-> FALSE,
         calls |-> 0, sends |-> << >>, raised |-> << >>,
         gate |-> [ok |-> FALSE, reason |-> NoReason], handler_sender |-> None,
         seen |-> NoScan,
         entry_str |-> << >>, entry_body |-> << >>,
         exit_str |-> << >>, exit_body |-> << >>,
         response |-> NoResponse]

\* _get_plugin_instance (main.py 241-259): the star_cls of the first extension
\* with that module_path, None when there is none or listing raises
HasPluginInstance(module_path, listing_fails) ==
    /\ ~listing_fails
    /\ \E i \in DOMAIN Stars : Stars[i].module_path = module_path

\* main.py 523-526
CommandText(actual_command, args) ==
    IF args # << >> THEN <<"/">> \o actual_command \o <<" ">> \o args
    ELSE <<"/">> \o actual_command

\* a restore that forgets the textual content
RestoreNothing(ev, original_msg) == ev

\* main.py 667-669: the restore of the failure path
RestoreOnError(ev, original_msg) == EventSetAttr(ev, "message_str", original_msg)

\* a success path that puts back the segment list only
RestoreOnSuccessBodyOnly(ev, original_msg, original_message_obj) ==
    IF original_message_obj # None
    THEN EventSetAttr(ev, "message_obj", original_message_obj) ELSE ev

\* main.py 623-630: the restore of the success path; original_message_obj is
\* the reference captured at line 505
RestoreOnSuccess(ev, original_msg, original_message_obj) ==
    LET e1 == EventSetAttr(ev, "message_str", original_msg) IN
    IF original_message_obj # None
    THEN EventSetAttr(e1, "message_obj", original_message_obj) ELSE e1

\* main.py 540-541: event.message_obj.message = components, on the object
\* the event refers to; nothing when that object has no message attribute
SetBody(ev, heap, components) ==
    IF ev.message_obj = None THEN heap
    ELSE [heap EXCEPT ![ev.message_obj].message = components]


\* the call returns `response`; exit_* record the event as the caller finds it
Returned(r, ev, heap, response) ==
    [r EXCEPT !.pc = "done", !.response = response,
              !.exit_str = ev.message_str, !.exit_body = HeldBody(ev, heap)]

\* main.py 622-660: restore, build the success payload, return
Succeed(p, r) ==
    LET ev == RestoreOnSuccess(event, r.original_msg, r.original_message_obj)
        response ==
            Response(TRUE, r.actual_command, r.args, r.result_texts, r.result_images,
                     IF r.as_bot THEN "bot" ELSE "user", NoReason)
    IN  /\ event' = ev
        /\ inv' = [inv EXCEPT ![p] = Returned(r, ev, message_obj, response)]

\* main.py 662-677: the outer except; exc is the exception that reached it
Fail(p, r, exc) ==
    LET ev == RestoreOnError(event, r.original_msg)
        response ==
            Response(FALSE, r.actual_command, << >>, << >>, << >>, "",
                     Reason("exec_failed", <<exc>>))
    IN  /\ event' = ev
        /\ inv' = [inv EXCEPT ![p] = Returned(r, ev, message_obj, response)]

\* the call waits at an await
Suspend(p, r) ==
    /\ inv' = [inv EXCEPT ![p] = r]
    /\ UNCHANGED event

\* main.py 559-564, 569-574: a non-None result is kept and its content extracted
Collect(r, result) ==
    IF result.kind = "none" THEN r
    ELSE LET extracted == ExtractContentFromResult(result) IN
         [r EXCEPT !.results_to_send = Append(@, result),
                   !.result_texts = @ \o extracted.texts,
                   !.result_images = @ \o extracted.images]

\* main.py 576-620 up to the first await: the fan-out decision; node_fails is
\* whether building the combined Node raises
AfterCollect(p, r, node_fails) ==
    LET comps == AllComponents(r.results_to_send) IN
    IF UseForward(config, event, r.result_texts)
    THEN IF comps = << >> THEN Succeed(p, r)
         ELSE IF node_fails
         THEN Suspend(p, [r EXCEPT !.pc = "send", !.send_i = 1,
                                   !.raised = Append(@, "node")])
         ELSE Suspend(p, [r EXCEPT !.pc = "forward"])
    ELSE IF r.results_to_send # << >>
    THEN Suspend(p, [r EXCEPT !.pc = "send", !.send_i = 1])
    ELSE Succeed(p, r)

\* execute_command from its entry to its first await or its early return.
\* kw are the keyword arguments; rebuild_fails and instance_fails are whether
\* context.get_all_stars() raises in the lazy rebuild and in
\* _get_plugin_instance
Start(p, kw, rebuild_fails, instance_fails) ==
    /\ inv[p].pc = "idle"
    /\ LET command == Strip(kw.command)
           args == Strip(kw.args)
           reply_image_url == Strip(kw.reply_image_url)
           lazy == command # << >> /\ CacheIsEmpty(handler_cache)
           idx == IF lazy
                  THEN BuildHandlerCache(star_handlers_registry, activated, rebuild_fails)
                  ELSE [cache |-> handler_cache, alias |-> alias_to_command]
           gate == CanExecute(command, GateSenderId(event, kw.as_bot, config.bot_user_id),
                              config, idx.cache, idx.alias)
           stripped == StripSlash(command)
           actual_command == Get(idx.alias, stripped, stripped)
           r0 == [Idle EXCEPT !.command = command, !.args = args,
                              !.at_qq_list = kw.at_qq_list,
                              !.reply_image_url = reply_image_url,
                              !.as_bot = kw.as_bot,
                              !.entry_str = event.message_str,
                              !.entry_body = HeldBody(event, message_obj)]
           Deny(r, reason) ==
               /\ inv' = [inv EXCEPT ![p] = Returned(r, event, message_obj, Denial(reason))]
               /\ UNCHANGED <<event, message_obj>>
       IN  /\ handler_cache' = idx.cache
           /\ alias_to_command' = idx.alias
           /\ scan' = IF lazy
                      THEN [registry |-> star_handlers_registry, activated |-> activated,
                            failed |-> rebuild_fails]
                      ELSE scan
           /\ IF command = << >> THEN Deny(r0, Reason("missing_command", nE))
              ELSE LET r1 == [r0 EXCEPT !.gate = gate, !.seen = scan'] IN
                   IF ~gate.ok THEN Deny(r1, gate.reason)
                   ELSE IF actual_command \notin DOMAIN idx.cache
                   THEN Deny(r1, Reason("not_found", stripped))
                   ELSE LET handler_info == idx.cache[actual_command] IN
                        IF ~HasPluginInstance(handler_info.module_path, instance_fails)
                        THEN Deny(r1, Reason("no_instance", stripped))
                        ELSE
                   LET ev1 == SetAttr(event, kw.as_bot, "message_str",
                                      CommandText(actual_command, args))
                       special == kw.at_qq_list # << >> \/ reply_image_url # << >>
                       heap1 == IF special
                                THEN SetBody(ev1, message_obj,
                                             BuildMessageComponents(actual_command, args,
                                                 kw.at_qq_list, reply_image_url))
                                ELSE message_obj
                       coro == handler_info.handler.proto = "coro"
                       r2 == [r1 EXCEPT
                                !.actual_command = actual_command,
                                !.handler = handler_info.handler,
                                !.original_msg = event.message_str,
                                !.original_message_obj = event.message_obj,
                                !.wrapped = kw.as_bot,
                                !.handler_sender =
                                    GetSenderId(event, kw.as_bot, config.bot_user_id),
                                !.pc = IF coro THEN "await" ELSE "iter",
                                !.fallback = coro,
                                !.calls = IF coro THEN 2 ELSE 1,
                                !.raised = IF coro THEN <<"NotAsyncIterable">> ELSE << >>]
                   IN  /\ event' = ev1
                       /\ message_obj' = heap1
                       /\ inv' = [inv EXCEPT ![p] = r2]
    /\ UNCHANGED <<config, activated, star_handlers_registry, listing>>

\* a loop that sends each result as soon as the generator yields it
HandlerYieldStreaming(p, result) ==
    /\ inv[p].pc = "iter"
    /\ inv[p].produced < MaxResults
    /\ LET r == Collect([inv[p] EXCEPT !.produced = @ + 1], result) IN
       Suspend(p, IF result.kind = "none" THEN r
                  ELSE [r EXCEPT !.sends =
                           Append(@, [what |-> "result",
                                      index |-> Len(r.results_to_send), ok |-> TRUE,
                                      merged |-> {Len(r.results_to_send)}])])
    /\ UNCHANGED <<config, activated, star_handlers_registry, handler_cache,
                   alias_to_command, scan, message_obj, listing>>

\* the async generator yields `result`  (main.py 558-564)
HandlerYield(p, result) ==
    /\ inv[p].pc = "iter"
    /\ inv[p].produced < MaxResults
    /\ Suspend(p, Collect([inv[p] EXCEPT !.produced = @ + 1], result))
    /\ UNCHANGED <<config, activated, star_handlers_registry, handler_cache,
                   alias_to_command, scan, message_obj, listing>>

\* the async generator is exhausted
HandlerReturn(p, node_fails) ==
    /\ inv[p].pc = "iter"
    /\ AfterCollect(p, inv[p], node_fails)
    /\ UNCHANGED <<config, activated, star_handlers_registry, handler_cache,
                   alias_to_command, scan, message_obj, listing>>

\* a handler whose exception is swallowed where it is raised
HandlerRaiseSwallowed(p, exc) ==
    /\ inv[p].pc = "iter"
    /\ AfterCollect(p, [inv[p] EXCEPT !.raised = Append(@, exc)], FALSE)
    /\ UNCHANGED <<config, activated, star_handlers_registry, handler_cache,
                   alias_to_command, scan, message_obj, listing>>

\* the async generator raises exc.  A TypeError is taken for "not an async
\* generator" (main.py 565-568): handler.handler(event) is called again and
\* awaiting the async generator object it returns raises TypeError, which
\* reaches the outer except
HandlerRaise(p, exc) ==
    /\ inv[p].pc = "iter"
    /\ IF exc = "TypeError"
       THEN Fail(p, [inv[p] EXCEPT !.fallback = TRUE, !.calls = @ + 1,
                                   !.raised = @ \o <<"TypeError", "NotAwaitable">>],
                 "TypeError")
       ELSE Fail(p, [inv[p] EXCEPT !.raised = Append(@, exc)], exc)
    /\ UNCHANGED <<config, activated, star_handlers_registry, handler_cache,
                   alias_to_command, scan, message_obj, listing>>

\* the awaited coroutine returns `result`  (main.py 568-574)
CoroReturn(p, result, node_fails) ==
    /\ inv[p].pc = "await"
    /\ AfterCollect(p, Collect([inv[p] EXCEPT !.produced = @ + 1], result), node_fails)
    /\ UNCHANGED <<config, activated, star_handlers_registry, handler_cache,
                   alias_to_command, scan, message_obj, listing>>

\* the awaited coroutine raises exc
CoroRaise(p, exc) ==
    /\ inv[p].pc = "await"
    /\ Fail(p, [inv[p] EXCEPT !.raised = Append(@, exc)], exc)
    /\ UNCHANGED <<config, activated, star_handlers_registry, handler_cache,
                   alias_to_command, scan, message_obj, listing>>

\* a combined-forward send whose failure is only logged
ForwardDoneNoFallback(p, fails) ==
    /\ inv[p].pc = "forward"
    /\ LET r == [inv[p] EXCEPT
                    !.sends = Append(@, [what |-> "forward", index |-> 0, ok |-> ~fails,
                                         merged |-> MergedResults(inv[p].results_to_send)]),
                    !.raised = IF fails THEN Append(@, "send") ELSE @]
       IN  Succeed(p, r)
    /\ UNCHANGED <<config, activated, star_handlers_registry, handler_cache,
                   alias_to_command, scan, message_obj, listing>>

\* the combined-forward send completes or raises  (main.py 603-612)
ForwardDone(p, fails) ==
    /\ inv[p].pc = "forward"
    /\ LET r == [inv[p] EXCEPT
                    !.sends = Append(@, [what |-> "forward", index |-> 0, ok |-> ~fails,
                                         merged |-> MergedResults(inv[p].results_to_send)])]
       IN  IF fails
           THEN Suspend(p, [r EXCEPT !.pc = "send", !.send_i = 1,
                                     !.raised = Append(@, "send")])
           ELSE Succeed(p, r)
    /\ UNCHANGED <<config, activated, star_handlers_registry, handler_cache,
                   alias_to_command, scan, message_obj, listing>>

\* a loop of sends that stops at the first send that raises
SendDoneAborts(p, fails) ==
    /\ inv[p].pc = "send"
    /\ LET r == [inv[p] EXCEPT
                    !.sends = Append(@, [what |-> "result", index |-> inv[p].send_i,
                                         ok |-> ~fails, merged |-> {inv[p].send_i}]),
                    !.raised = IF fails THEN Append(@, "send") ELSE @]
       IN  IF r.send_i < Len(r.results_to_send) /\ ~fails
           THEN Suspend(p, [r EXCEPT !.send_i = @ + 1])
           ELSE Succeed(p, r)
    /\ UNCHANGED <<config, activated, star_handlers_registry, handler_cache,
                   alias_to_command, scan, message_obj, listing>>

\* the send of result send_i completes or raises  (main.py 608-612, 615-620)
SendDone(p, fails) ==
    /\ inv[p].pc = "send"
    /\ LET r == [inv[p] EXCEPT
                    !.sends = Append(@, [what |-> "result", index |-> inv[p].send_i,
                                         ok |-> ~fails, merged |-> {inv[p].send_i}]),
                    !.raised = IF fails THEN Append(@, "send") ELSE @]
       IN  IF r.send_i < Len(r.results_to_send)
           THEN Suspend(p, [r EXCEPT !.send_i = @ + 1])
           ELSE Succeed(p, r)
    /\ UNCHANGED <<config, activated, star_handlers_registry, handler_cache,
                   alias_to_command, scan, message_obj, listing>>

\* the agent has the payload; the call's frame is gone
Return(p) ==
    /\ inv[p].pc = "done"
    /\ inv' = [inv EXCEPT ![p] = Idle]
    /\ UNCHANGED <<config, activated, star_handlers_registry, handler_cache,
                   alias_to_command, scan, event, message_obj, listing>>


-----------------------------------------------------------------------------
(* Administrative surface and the environment *)

\* the characters of the extension names
NameChars(name) ==
    CASE name = "fishing" -> <<"f", "i", "s", "h", "i", "n", "g">>
      [] name = "tools"   -> <<"t", "o", "o", "l", "s">>
      [] name = "astrbot" -> <<"a", "s", "t", "r", "b", "o", "t">>
      [] OTHER            -> <<"n", "o", "m", "o", "d">>

\* str.lower() over the letters the model uses
LowerChar(c) ==
    CASE c = "T" -> "t" [] c = "O" -> "o" [] c = "F" -> "f" [] c = "S" -> "s" [] OTHER -> c

Lower(s) == [i \in DOMAIN s |-> LowerChar(s[i])]

\* a category filter that compares the letters as they are
InCategoryCaseSensitive(category, plugin) ==
    category = << >> \/ Contains(NameChars(plugin), category)

\* main.py 713: the category filter, a case-insensitive substring test
InCategory(category, plugin) ==
    category = << >> \/ Contains(Lower(NameChars(plugin)), Lower(category))

\* main.py 716-721: one entry of the list
ListEntry(handler_info) ==
    [command |-> handler_info.command, description |-> handler_info.description,
     aliases |-> handler_info.aliases]

\* the payload of list_executable_commands; category, sender_id, rebuilt and
\* seen are history: the filter and the caller of the call that produced it,
\* whether it rebuilt the index, and the scan pass whose index it read.  The entries of a
\* group are kept as a set: the order of a group is the iteration order of the
\* dictionary, which no property below depends on
NoListing ==
    [success |-> FALSE, total_count |-> 0, plugins |-> EmptyDict,
     category |-> << >>, sender_id |-> None, rebuilt |-> FALSE, seen |-> NoScan]

\* list_executable_commands (main.py 679-739): a lazy rebuild when the handler
\* index is empty, then every indexed command the gate allows for this event
\* and whose extension name matches the category, grouped by extension
ListExecutableCommands(kw_category, rebuild_fails) ==
    /\ LET category == Strip(kw_category)
           lazy == CacheIsEmpty(handler_cache)
           idx == IF lazy
                  THEN BuildHandlerCache(star_handlers_registry, activated, rebuild_fails)
                  ELSE [cache |-> handler_cache, alias |-> alias_to_command]
           executable_commands ==
               {cmd_name \in DOMAIN idx.cache :
                   /\ CanExecute(cmd_name, event.sender_id, config, idx.cache, idx.alias).ok
                   /\ InCategory(category, idx.cache[cmd_name].plugin)}
           plugins == {idx.cache[c].plugin : c \in executable_commands}
       IN  /\ handler_cache' = idx.cache
           /\ alias_to_command' = idx.alias
           /\ scan' = IF lazy
                      THEN [registry |-> star_handlers_registry, activated |-> activated,
                            failed |-> rebuild_fails]
                      ELSE scan
           /\ listing' =
                 [success |-> TRUE,
                  total_count |-> Cardinality(executable_commands),
                  plugins |-> [pl \in plugins |->
                                 {ListEntry(idx.cache[c]) :
                                     c \in {d \in executable_commands :
                                               idx.cache[d].plugin = pl}}],
                  category |-> category, sender_id |-> event.sender_id,
                  rebuilt |-> lazy, seen |-> scan']
    /\ UNCHANGED <<config, activated, star_handlers_registry, event, message_obj, inv>>

\* a rebuild that clears both dictionaries and refills them only when the
\* handler index held nothing
RefreshCacheClearFirst(listing_fails) ==
    /\ LET idx == IF CacheIsEmpty(handler_cache)
                  THEN BuildHandlerCache(star_handlers_registry, activated, listing_fails)
                  ELSE EmptyIndex IN
       /\ handler_cache' = idx.cache
       /\ alias_to_command' = idx.alias
    /\ scan' = [registry |-> star_handlers_registry, activated |-> activated,
                failed |-> listing_fails]
    /\ UNCHANGED <<config, activated, star_handlers_registry, event, message_obj, inv,
                   listing>>

\* refresh_cache and _initialize: an explicit rebuild  (main.py 89-92, 778-782)
RefreshCache(listing_fails) ==
    /\ LET idx == BuildHandlerCache(star_handlers_registry, activated, listing_fails) IN
       /\ handler_cache' = idx.cache
       /\ alias_to_command' = idx.alias
    /\ scan' = [registry |-> star_handlers_registry, activated |-> activated,
                failed |-> listing_fails]
    /\ UNCHANGED <<config, activated, star_handlers_registry, event, message_obj, inv, listing>>

\* the host registers a handler of a loaded extension
RegisterHandler(h) ==
    /\ Len(star_handlers_registry) < MaxHandlers
    /\ star_handlers_registry' = Append(star_handlers_registry, h)
    /\ UNCHANGED <<config, activated, handler_cache, alias_to_command, scan,
                   event, message_obj, inv, listing>>

\* the host activates or deactivates an extension
SetActivated(name, b) ==
    /\ activated[name] # b
    /\ activated' = [activated EXCEPT ![name] = b]
    /\ UNCHANGED <<config, star_handlers_registry, handler_cache, alias_to_command,
                   scan, event, message_obj, inv, listing>>

-----------------------------------------------------------------------------
(* Initial states *)

\* the defaults of __init__ (main.py 71-78), with the scaled threshold
DefaultConfig ==
    [enabled |-> TRUE, whitelist |-> {}, blacklist |-> {},
     allow_admin_commands |-> FALSE, admin_users |-> {},
     bot_user_id |-> "bot_self", enable_forward |-> TRUE,
     forward_threshold |-> ForwardThreshold]

\* an inbound message "hi" from sender u1
InitialEvent ==
    [message_str |-> <<"h", "i">>, message_obj |-> "o1",
     sender_id |-> "u1", platform_name |-> "aiocqhttp"]

InitialHeap == [o1 |-> [message |-> <<Plain(<<"h", "i">>)>>]]

\* after __init__ (main.py 63-78): both dictionaries empty, no call running
Constructed ==
    /\ handler_cache = EmptyDict
    /\ alias_to_command = EmptyDict
    /\ scan = NoScan
    /\ inv = [p \in Procs |-> Idle]
    /\ listing = NoListing

-----------------------------------------------------------------------------
(* Specification of the handler index under a changing host *)

InitIndex ==
    /\ Constructed
    /\ config = DefaultConfig
    /\ activated = AllActive
    /\ star_handlers_registry = << >>
    /\ event = InitialEvent
    /\ message_obj = InitialHeap

NextIndex ==
    \/ \E h \in HandlerPool : RegisterHandler(h)
    \/ \E n \in Togglable, b \in BOOLEAN : SetActivated(n, b)
    \/ \E f \in BOOLEAN : RefreshCache(f)

SpecIndex == InitIndex /\ [][NextIndex]_vars

-----------------------------------------------------------------------------
(* Specification of the policy gate: every configuration, simple handlers *)

\* a plain command x with alias p, and an admin-only command a with alias b
GateRegistry == <<
    Handler("h1", "m1", "d1", <<CommandFilter(nX, AliasSet({nP}))>>, "gen"),
    Handler("h8", "m2", "d8",
            <<CommandFilter(nA, AliasSet({nB})), PermissionTypeFilter>>, "gen") >>

GateConfigs ==
    [enabled : BOOLEAN,
     whitelist : {{}, {nX}, {nP}, {nSP}, {nA}},
     blacklist : {{}, {nX}, {nP}, {nSP}, {nA}},
     allow_admin_commands : BOOLEAN,
     admin_users : {{}, {"u1"}},
     bot_user_id : {"bot_self"},
     enable_forward : {TRUE},
     forward_threshold : {ForwardThreshold}]

Kw(command, args, at_qq_list, reply_image_url, as_bot) ==
    [command |-> command, args |-> args, at_qq_list |-> at_qq_list,
     reply_image_url |-> reply_image_url, as_bot |-> as_bot]

\* names the agent passes: canonical, alias, slashed, padded, unknown, empty
GateCommands == {nX, nSX, nP, nSP, nA, nB, nZ, <<"x", " ">>, << >>, <<" ">>}

\* results a handler produces: a short chain, a chain and a bare string whose
\* text alone exceeds the threshold
rShort == ChainResult(<<Plain(<<"o">>)>>)
rLong == ChainResult(<<Plain([i \in 1..(ForwardThreshold + 1) |-> "o"])>>)
rStr == StrResult([i \in 1..(ForwardThreshold + 1) |-> "s"])

InitGate ==
    /\ Constructed
    /\ config \in GateConfigs
    /\ activated = AllActive
    /\ star_handlers_registry = GateRegistry
    /\ event \in {[InitialEvent EXCEPT !.sender_id = u] : u \in {"u1", "u2"}}
    /\ message_obj = InitialHeap

NextGate ==
    \E p \in {"t1"} :
        \/ \E c \in GateCommands, b \in BOOLEAN, f \in BOOLEAN :
              Start(p, Kw(c, << >>, << >>, << >>, b), f, FALSE)
        \/ HandlerYield(p, rShort)
        \/ HandlerReturn(p, FALSE)
        \/ HandlerRaise(p, "Exception")
        \/ SendDone(p, FALSE)
        \/ Return(p)

SpecGate == InitGate /\ [][NextGate]_vars

-----------------------------------------------------------------------------
(* Specification of one invocation: every input shape and handler behaviour *)

\* x: an async generator with alias p; y: a coroutine function
ExecRegistry == <<
    Handler("h1", "m1", "d1", <<CommandFilter(nX, AliasSet({nP}))>>, "gen"),
    Handler("h2", "m1", "", <<CommandFilter(nSY, NoAlias)>>, "coro") >>

ExecConfigs == {[DefaultConfig EXCEPT !.enable_forward = f] : f \in BOOLEAN}

ExecEvents ==
    {[InitialEvent EXCEPT !.platform_name = pl, !.message_obj = o] :
        pl \in {"aiocqhttp", "other"}, o \in {"o1", None}}

ExecCommands == {nX, nP, nSY, nZ}
ExecArgs == {<< >>, <<"6">>, <<"@", "0", " ", "6">>}
ExecAtLists == {<< >>, <<"123">>}
ExecUrls == {<< >>, <<"u">>}
ExecResults == {rShort, rLong, rStr, NoneResult}
Exceptions == {"TypeError", "Exception"}

InitExec ==
    /\ Constructed
    /\ config \in ExecConfigs
    /\ activated = AllActive
    /\ star_handlers_registry = ExecRegistry
    /\ event \in ExecEvents
    /\ message_obj = InitialHeap

NextExec ==
    \E p \in {"t1"} :
        \/ \E c \in ExecCommands, a \in ExecArgs, q \in ExecAtLists, u \in ExecUrls,
              b \in BOOLEAN, f \in BOOLEAN :
              Start(p, Kw(c, a, q, u, b), FALSE, f)
        \/ \E r \in ExecResults : HandlerYield(p, r)
        \/ \E f \in BOOLEAN : HandlerReturn(p, f)
        \/ \E e \in Exceptions : HandlerRaise(p, e)
        \/ \E r \in ExecResults, f \in BOOLEAN : CoroReturn(p, r, f)
        \/ \E e \in Exceptions : CoroRaise(p, e)
        \/ \E f \in BOOLEAN : ForwardDone(p, f)
        \/ \E f \in BOOLEAN : SendDone(p, f)

SpecExec == InitExec /\ [][NextExec]_vars


-----------------------------------------------------------------------------
(* Specification of interleaved calls: two calls of execute_command on the  *)
(* same event, list_executable_commands, explicit rebuilds and a host that  *)
(* unloads an extension, switching at the awaits                            *)

\* x (alias p) of fishing, the group g of tools
RaceRegistry == <<
    Handler("h1", "m1", "d1", <<CommandFilter(nX, AliasSet({nP}))>>, "gen"),
    Handler("h9", "m2", "d9", <<CommandGroupFilter(nG)>>, "gen") >>

RaceCommands == {nP, nG}

InitRace ==
    /\ Constructed
    /\ config = DefaultConfig
    /\ activated = AllActive
    /\ star_handlers_registry = RaceRegistry
    /\ event = InitialEvent
    /\ message_obj = InitialHeap

NextRace ==
    \/ \E p \in Procs :
          \/ \E c \in RaceCommands, f \in BOOLEAN :
                Start(p, Kw(c, << >>, << >>, << >>, FALSE), f, FALSE)
          \/ HandlerReturn(p, FALSE)
          \/ HandlerRaise(p, "Exception")
          \/ Return(p)
    \/ \E f \in BOOLEAN : RefreshCache(f)
    \/ SetActivated("fishing", FALSE)
    \/ \E f \in BOOLEAN : ListExecutableCommands(<< >>, f)

SpecRace == InitRace /\ [][NextRace]_vars

-----------------------------------------------------------------------------
(* Specification of the message synthesizer: execute_command called with   *)
(* every shape of args and mention targets, the handler reading the body   *)

\* "@0 60", "60", "6 @0 7", "@0 @1", "a@0 6", "@1 6 @0", "@01 6", ""
SynthArgs == {
    <<"@", "0", " ", "6", "0">>,
    <<"6", "0">>,
    <<"6", " ", "@", "0", " ", "7">>,
    <<"@", "0", " ", "@", "1">>,
    <<"a", "@", "0", " ", "6">>,
    <<"@", "1", " ", "6", " ", " ", "@", "0">>,
    <<"@", "0", "1", " ", "6">>,
    << >> }

SynthAtLists == {<< >>, <<"123">>, <<"123", "456">>}

SynthUrls == {<< >>, <<"u">>}

InitSynth ==
    /\ Constructed
    /\ config = DefaultConfig
    /\ activated = AllActive
    /\ star_handlers_registry = ExecRegistry
    /\ event = InitialEvent
    /\ message_obj = InitialHeap

NextSynth ==
    \E p \in {"t1"} :
        \/ \E c \in {nX, nSX}, a \in SynthArgs, q \in SynthAtLists, u \in SynthUrls :
              Start(p, Kw(c, a, q, u, FALSE), FALSE, FALSE)
        \/ HandlerReturn(p, FALSE)
        \/ Return(p)

SpecSynth == InitSynth /\ [][NextSynth]_vars

-----------------------------------------------------------------------------
(* Specification of list_executable_commands: every configuration of the   *)
(* gate, two callers, categories, rebuilds and an extension being unloaded *)

\* x (alias p) of fishing; the admin-only a (alias b) and p of tools
ListRegistry == <<
    Handler("h1", "m1", "d1", <<CommandFilter(nX, AliasSet({nP}))>>, "gen"),
    Handler("h8", "m2", "d8",
            <<CommandFilter(nA, AliasSet({nB})), PermissionTypeFilter>>, "gen"),
    Handler("h7", "m2", "d7", <<CommandFilter(nP, AliasTuple({nZ}))>>, "coro") >>

\* no category, "TOO", "fish", "  s " and "zz"
ListCategories == {
    << >>,
    <<"T", "O", "O">>,
    <<"f", "i", "s", "h">>,
    <<" ", " ", "s", " ">>,
    <<"z", "z">> }

InitList ==
    /\ Constructed
    /\ config \in GateConfigs
    /\ activated = AllActive
    /\ star_handlers_registry = ListRegistry
    /\ event \in {[InitialEvent EXCEPT !.sender_id = u] : u \in {"u1", "u2"}}
    /\ message_obj = InitialHeap

NextList ==
    \/ \E c \in ListCategories, f \in BOOLEAN : ListExecutableCommands(c, f)
    \/ \E f \in BOOLEAN : RefreshCache(f)
    \/ SetActivated("fishing", FALSE)

SpecList == InitList /\ [][NextList]_vars

-----------------------------------------------------------------------------
(* Specification of the as_bot identity: admin lists with and without the  *)
(* caller and the bot, calls with and without as_bot                       *)

BotConfigs ==
    [enabled : {TRUE},
     whitelist : {{}},
     blacklist : {{}},
     allow_admin_commands : BOOLEAN,
     admin_users : SUBSET {"u1", "bot_self"},
     bot_user_id : {"bot_self"},
     enable_forward : {TRUE},
     forward_threshold : {ForwardThreshold}]

\* the admin-only a, its alias b, and x, which anyone may run
BotCommands == {nA, nB, nX}

InitBot ==
    /\ Constructed
    /\ config \in BotConfigs
    /\ activated = AllActive
    /\ star_handlers_registry = GateRegistry
    /\ event \in {[InitialEvent EXCEPT !.sender_id = u] : u \in {"u1", "u2"}}
    /\ message_obj = InitialHeap

NextBot ==
    \E p \in {"t1"} :
        \/ \E c \in BotCommands, b \in BOOLEAN, f \in BOOLEAN :
              Start(p, Kw(c, << >>, << >>, << >>, b), f, FALSE)
        \/ HandlerYield(p, rShort)
        \/ HandlerReturn(p, FALSE)
        \/ HandlerRaise(p, "Exception")
        \/ SendDone(p, FALSE)
        \/ Return(p)

SpecBot == InitBot /\ [][NextBot]_vars

-----------------------------------------------------------------------------
(* Properties *)

Users == {"u1", "u2"}

\* a call that has been entered with a non-empty command, so that the gate ran
Gated(p) == inv[p].pc # "idle" /\ inv[p].command # << >>

\* the name handed to _can_execute, its slash-stripped form and its
\* canonical resolution in the index
Given(p) == inv[p].command
Stripped(p) == StripSlash(inv[p].command)
Actual(p) == Get(alias_to_command, Stripped(p), Stripped(p))
Indexed(p) == Actual(p) \in DOMAIN handler_cache

HandlerRaised(p) == \E i \in DOMAIN inv[p].raised : inv[p].raised[i] \in Exceptions
DeliveryRaised(p) == \E i \in DOMAIN inv[p].raised : inv[p].raised[i] \in {"send", "node"}

\* C1: every call of execute_command that reached the handler invocation
\* returns with the event's message_str equal to its value when the call was
\* entered: after the handler completed, after it raised, after a send raised,
\* with and without the as_bot wrapper.
C1_MessageStrRestored ==
    \A p \in Procs :
        inv[p].pc = "done" /\ inv[p].calls > 0 => inv[p].exit_str = inv[p].entry_str

\* C1 witness: an as_bot call whose handler raised has returned, and the text
\* it had set for the handler differs from the text at entry.
C1_Witness ==
    \E p \in Procs :
        /\ inv[p].pc = "done" /\ inv[p].calls > 0 /\ inv[p].as_bot
        /\ HandlerRaised(p)
        /\ CommandText(inv[p].actual_command, inv[p].args) # inv[p].entry_str
        /\ event.message_str = inv[p].entry_str

\* C2 (as claimed): a call that supplied mention targets or a quoted image
\* returns with message_obj holding the segment list it held at entry.
C2_BodyRestored ==
    \A p \in Procs :
        /\ inv[p].pc = "done" /\ inv[p].calls > 0
        /\ (inv[p].at_qq_list # << >> \/ inv[p].reply_image_url # << >>)
        => inv[p].exit_body = inv[p].entry_body

\* C3: while config.enabled is off, _can_execute denies every name for every
\* caller, whatever the lists, flags and index hold, and a call of
\* execute_command returns without having called a handler.
C3_DisabledDeniesAll ==
    ~config.enabled =>
        /\ \A c \in GateCommands, u \in Users :
              ~CanExecute(c, u, config, handler_cache, alias_to_command).ok
        /\ \A p \in Procs :
              inv[p].pc # "idle" =>
                  inv[p].pc = "done" /\ inv[p].calls = 0 /\ ~inv[p].response.success

\* C3 witness: a call for an indexed command that every other check admits
\* was denied because the flag is off.
C3_Witness ==
    \E p \in Procs :
        /\ Gated(p) /\ ~config.enabled /\ inv[p].pc = "done"
        /\ DOMAIN handler_cache # {}
        /\ CanExecute(Given(p), event.sender_id, [config EXCEPT !.enabled = TRUE],
                      handler_cache, alias_to_command).ok
        /\ inv[p].response.error.msg = "disabled"

\* the list checks, written out on the slash-stripped name and the canonical name
PassesWhitelist(p) ==
    config.whitelist = {} \/ Stripped(p) \in config.whitelist
                          \/ Actual(p) \in config.whitelist
HitsBlacklist(p) == Stripped(p) \in config.blacklist \/ Actual(p) \in config.blacklist

\* an indexed admin-only command that passed the enable, whitelist and
\* blacklist checks
AdminCase(p) ==
    /\ Gated(p) /\ config.enabled /\ Indexed(p)
    /\ handler_cache[Actual(p)].is_admin
    /\ PassesWhitelist(p) /\ ~HitsBlacklist(p)

\* C4: for an indexed admin-only command that passes the enable, whitelist
\* and blacklist checks, a caller in admin_users is allowed even when
\* allow_admin_commands is false; a caller not in admin_users is denied when
\* allow_admin_commands is false and allowed when it is true.
C4_AdminGate ==
    \A p \in Procs :
        AdminCase(p) =>
            inv[p].gate.ok =
                (event.sender_id \in config.admin_users \/ config.allow_admin_commands)

\* C4 witness: a caller in admin_users ran an admin-only command while
\* allow_admin_commands is false.
C4_Witness ==
    \E p \in Procs :
        /\ AdminCase(p) /\ ~config.allow_admin_commands
        /\ event.sender_id \in config.admin_users
        /\ inv[p].gate.ok /\ inv[p].calls > 0

\* the names differ and the earlier checks passed
ListCase(p) ==
    /\ Gated(p) /\ config.enabled /\ Indexed(p)
    /\ Given(p) # Actual(p)

EarliestFailure(p) ==
    IF ~config.enabled THEN "disabled"
    ELSE IF ~Indexed(p) THEN "not_found"
    ELSE IF ~PassesWhitelist(p) THEN "not_whitelisted"
    ELSE IF HitsBlacklist(p) THEN "blacklisted"
    ELSE IF /\ handler_cache[Actual(p)].is_admin
            /\ event.sender_id \notin config.admin_users
            /\ ~config.allow_admin_commands THEN "need_admin"
    ELSE "none"

\* C6: _can_execute stops at the first failing check in the order enable
\* flag, resolution, whitelist, blacklist, admin permission: the denial
\* reason is that of the earliest failing check, and the call is allowed iff
\* no check fails.
C6_FirstFailingCheck ==
    \A p \in Procs :
        Gated(p) =>
            /\ inv[p].gate.ok = (EarliestFailure(p) = "none")
            /\ ~inv[p].gate.ok => inv[p].gate.reason.msg = EarliestFailure(p)

\* C6 witness: a name that is not indexed and not in the non-empty whitelist
\* was denied as not found.
C6_Witness ==
    \E p \in Procs :
        /\ Gated(p) /\ config.enabled /\ DOMAIN handler_cache # {}
        /\ ~Indexed(p) /\ ~PassesWhitelist(p)
        /\ inv[p].gate.reason.msg = "not_found"

\* a call that the gate denied, or whose command argument was empty
Refused(p) == inv[p].pc # "idle" /\ (inv[p].command = << >> \/ ~inv[p].gate.ok)

\* C7: a call that is denied by the gate, or has an empty command, returns a
\* payload with success false and the denial reason as error, raises nothing,
\* calls no handler, sends nothing, and leaves message_str and the segment
\* list of message_obj as they were.
C7_DenialFrame ==
    \A p \in Procs :
        Refused(p) =>
            /\ inv[p].pc = "done"
            /\ ~inv[p].response.success
            /\ inv[p].response.error =
                  (IF inv[p].command = << >> THEN Reason("missing_command", nE)
                   ELSE inv[p].gate.reason)
            /\ inv[p].response.error # NoReason
            /\ inv[p].raised = << >> /\ inv[p].calls = 0 /\ inv[p].sends = << >>
            /\ inv[p].exit_str = inv[p].entry_str
            /\ inv[p].exit_body = inv[p].entry_body

\* C7 witness: a caller outside admin_users was refused an admin-only command.
C7_Witness ==
    \E p \in Procs :
        /\ Refused(p) /\ inv[p].gate.reason.msg = "need_admin"
        /\ inv[p].response.error.msg = "need_admin"
        /\ event = [InitialEvent EXCEPT !.sender_id = event.sender_id]

\* C8 (as claimed): when the handler, result collection or delivery raised
\* during an admitted call, the call returns a payload with success false,
\* the resolved command name and an error text.
C8_AnyRaiseFails ==
    \A p \in Procs :
        inv[p].pc = "done" /\ inv[p].calls > 0 /\ (HandlerRaised(p) \/ DeliveryRaised(p))
        => /\ ~inv[p].response.success
           /\ inv[p].response.command = inv[p].actual_command
           /\ inv[p].response.error.msg = "exec_failed"

\* C8 (amended): an admitted call always returns a payload.  When the handler
\* raised, the payload has success false, the resolved command name and the
\* error text; an exception raised by delivery (building the combined
\* container, or a send) is contained where it is raised and the payload is
\* the success payload.
C8_HandlerRaiseFails ==
    \A p \in Procs :
        inv[p].pc = "done" /\ inv[p].calls > 0
        => /\ inv[p].response.command = inv[p].actual_command
           /\ inv[p].response.success = ~HandlerRaised(p)
           /\ HandlerRaised(p) =>
                 /\ inv[p].response.error.msg = "exec_failed"
                 /\ inv[p].response.error.command # << >>
                 /\ inv[p].sends = << >>
           /\ ~HandlerRaised(p) => inv[p].response.error = NoReason

\* C8 witness: a handler raised after producing a result and the call
\* returned the failure payload.
C8_Witness ==
    \E p \in Procs :
        /\ inv[p].pc = "done" /\ HandlerRaised(p) /\ inv[p].results_to_send # << >>
        /\ ~inv[p].response.success
        /\ inv[p].response.command = inv[p].actual_command

\* C9: every alias in the alias index maps to a key of the handler index.
C9_AliasTargetsIndexed ==
    \A a \in DOMAIN alias_to_command : alias_to_command[a] \in DOMAIN handler_cache

\* C9 witness: a rebuild that succeeded indexed an alias of a command whose
\* declared name carries a slash.
C9_Witness ==
    /\ ~scan.failed
    /\ \E a \in DOMAIN alias_to_command :
          /\ alias_to_command[a] \in DOMAIN handler_cache
          /\ handler_cache[alias_to_command[a]].handler.event_filters[1].name
                # alias_to_command[a]
          /\ handler_cache[alias_to_command[a]].handler.event_filters[1].type = "Command"

\* the handlers of the last scan pass that were indexed, by position
ScanEligible(i) ==
    /\ i \in DOMAIN scan.registry
    /\ scan.registry[i].handler_module_path \in DOMAIN ModuleToStar(scan.activated)
    /\ ScanFilters(scan.registry[i]).command_name \notin {NoName, nE}

\* the positions of the indexed handlers that declare alias a
Declarers(a) ==
    {i \in DOMAIN scan.registry :
        /\ ScanEligible(i)
        /\ StripSlash(a) \in {StripSlash(x) : x \in ScanFilters(scan.registry[i]).aliases}}

LastDeclarer(a) == CHOOSE i \in Declarers(a) : \A j \in Declarers(a) : j <= i

CanonicalOf(i) == StripSlash(ScanFilters(scan.registry[i]).command_name)

\* C10 (as claimed): for every indexed command c and every alias a its record
\* declares, resolving a yields c's own record.
C10_AliasResolvesToOwner ==
    \A c \in DOMAIN handler_cache :
        \A a \in handler_cache[c].aliases :
            /\ Resolves(a, handler_cache, alias_to_command)
            /\ Resolve(a, handler_cache, alias_to_command) = handler_cache[c]

\* C10 (amended): resolving a yields the record indexed under the canonical
\* name of the last scanned handler that declares a; it is c's own record
\* exactly when that handler's canonical name is c.
C10_AliasResolvesToLastDeclarer ==
    \A c \in DOMAIN handler_cache :
        \A a \in handler_cache[c].aliases :
            /\ Declarers(a) # {}
            /\ Resolves(a, handler_cache, alias_to_command)
            /\ Resolve(a, handler_cache, alias_to_command)
                  = handler_cache[CanonicalOf(LastDeclarer(a))]
            /\ (CanonicalOf(LastDeclarer(a)) = c) =>
                  Resolve(a, handler_cache, alias_to_command) = handler_cache[c]

\* C10 witness: two indexed commands with different canonical names declare
\* the same alias, and the alias resolves to the later one.
C10_Witness ==
    \E c \in DOMAIN handler_cache, d \in DOMAIN handler_cache :
        /\ c # d
        /\ \E a \in handler_cache[c].aliases, b \in handler_cache[d].aliases :
              /\ StripSlash(a) = StripSlash(b)
              /\ Resolve(a, handler_cache, alias_to_command) = handler_cache[d]
              /\ Resolve(a, handler_cache, alias_to_command) # handler_cache[c]

\* the extension that owns module path mp was active in the last scan pass and
\* is outside the excluded set
OwnedByActiveExtension(mp) ==
    \E s \in DOMAIN Stars :
        /\ Stars[s].module_path = mp /\ mp # None
        /\ scan.activated[Stars[s].name]
        /\ Stars[s].name \notin skip_plugins

\* the slash-stripped names of the command and group filters handler h declares
DeclaredNames(h) ==
    {StripSlash(h.event_filters[k].name) :
        k \in {j \in DOMAIN h.event_filters : h.event_filters[j].type \in {"Command", "Group"}}}

\* the names declared by the handlers of the last scan pass that belong to an
\* active extension outside the excluded set
DeclaredByActive ==
    UNION {DeclaredNames(scan.registry[i]) :
              i \in {j \in DOMAIN scan.registry :
                        OwnedByActiveExtension(scan.registry[j].handler_module_path)}}

\* C11 (as claimed): after a rebuild that succeeded, a name is a key of the
\* handler index iff a handler of an active extension outside the excluded
\* set declares a command filter or a group filter with that slash-stripped
\* name.
C11_IndexedIffDeclared ==
    ~scan.failed => DOMAIN handler_cache = DeclaredByActive

\* the index a complete scan pass over the inputs sc builds: empty when
\* listing failed or no extension was active
SnapshotOf(sc) ==
    IF sc.failed \/ \A i \in DOMAIN Stars : ~sc.activated[Stars[i].name]
    THEN EmptyIndex
    ELSE IndexFrom(sc.registry, 1, ModuleToStar(sc.activated), EmptyIndex)

\* what the gate and the resolution of a call obtain from the index ix
ReadsFrom(p, ix) ==
    /\ inv[p].gate = CanExecute(inv[p].command, event.sender_id, config, ix.cache, ix.alias)
    /\ inv[p].calls > 0 =>
          /\ inv[p].actual_command = Canonical(inv[p].command, ix.alias)
          /\ inv[p].handler = ix.cache[inv[p].actual_command].handler

\* what list_executable_commands returns when it iterates over the index ix
ListsFrom(ix) ==
    /\ DOMAIN listing.plugins \subseteq {ix.cache[c].plugin : c \in DOMAIN ix.cache}
    /\ listing.total_count =
          Cardinality({c \in DOMAIN ix.cache :
                          CanExecute(c, listing.sender_id, config, ix.cache, ix.alias).ok})

\* C12: at every point where control can switch between interleaved calls
\* the handler index and the alias index together are the complete result of
\* one scan pass (the last one; empty when it failed), and what each reader
\* obtained (the gate and the resolution of execute_command, the iteration of
\* list_executable_commands) is what the complete index of one scan pass
\* gives.
C12_IndexIsSnapshot ==
    /\ [cache |-> handler_cache, alias |-> alias_to_command] = SnapshotOf(scan)
    /\ \A p \in Procs : Gated(p) => ReadsFrom(p, SnapshotOf(inv[p].seen))
    /\ listing.success => ListsFrom(SnapshotOf(listing.seen))

\* C12 witness: two calls are suspended in their handlers, each resolved
\* against the populated index of a different scan pass, a later rebuild has
\* failed, and a list call has read the index that rebuild left.
C12_Witness ==
    /\ inv["t1"].pc = "iter" /\ inv["t2"].pc = "iter"
    /\ inv["t1"].seen # inv["t2"].seen
    /\ scan # inv["t1"].seen /\ scan # inv["t2"].seen
    /\ scan.failed /\ listing.success /\ listing.seen = scan
    /\ handler_cache = EmptyDict /\ listing.total_count = 0

\* a step in which p enters execute_command with a non-empty command
StartStep(p) == inv[p].pc = "idle" /\ inv'[p].pc # "idle" /\ inv'[p].command # << >>

\* a step of list_executable_commands that returns a new payload
ListStep == listing' # listing

\* the scan pass of a rebuild made in this step: over the registry and the
\* extensions as they are now
ScansNow(sc) == sc.registry = star_handlers_registry /\ sc.activated = activated

\* C13: a rebuild in which listing the extensions failed leaves the handler
\* index and the alias index empty, whatever they held; a call of
\* execute_command with a non-empty command, or of list_executable_commands,
\* that finds the handler index empty rebuilds it over the current registry
\* and extensions before it reads it, and when listing succeeds in that
\* rebuild the call reads the repopulated index.
C13_FailedRebuildSelfHeals ==
    [][ /\ scan'.failed => handler_cache' = EmptyDict /\ alias_to_command' = EmptyDict
        /\ \A p \in Procs :
              StartStep(p) /\ handler_cache = EmptyDict =>
                  /\ ScansNow(scan') /\ inv'[p].seen = scan'
                  /\ [cache |-> handler_cache', alias |-> alias_to_command']
                        = SnapshotOf(scan')
                  /\ ReadsFrom(p, SnapshotOf(scan))'
        /\ ListStep /\ handler_cache = EmptyDict =>
                  /\ ScansNow(scan') /\ listing'.seen = scan'
                  /\ [cache |-> handler_cache', alias |-> alias_to_command']
                        = SnapshotOf(scan')
                  /\ ListsFrom(SnapshotOf(scan))'
      ]_vars

\* C13 witness: a call resolved against a populated index is still running,
\* a second call of execute_command has since read the index a failed
\* rebuild left and was told the command is not found, and a list call then
\* found the index empty, rebuilt it and lists the repopulated index.
C13_Witness ==
    /\ inv["t1"].pc = "iter" /\ ~inv["t1"].seen.failed
    /\ inv["t2"].pc = "done" /\ Gated("t2")
    /\ inv["t2"].seen.failed /\ inv["t2"].gate.reason.msg = "not_found"
    /\ inv["t2"].command = inv["t1"].command
    /\ listing.success /\ listing.rebuilt /\ ~listing.seen.failed
    /\ listing.seen = scan /\ listing.total_count > 0
    /\ DOMAIN handler_cache # {} /\ DOMAIN alias_to_command # {}

\* the comparison of two snapshots: the same canonical names, per name the
\* same description, extension, alias set and admin flag, and the same alias
\* index
SameSnapshot(c1, a1, c2, a2) ==
    /\ DOMAIN c1 = DOMAIN c2
    /\ \A n \in DOMAIN c1 :
          /\ c1[n].description = c2[n].description
          /\ c1[n].plugin = c2[n].plugin
          /\ c1[n].aliases = c2[n].aliases
          /\ c1[n].is_admin = c2[n].is_admin
    /\ a1 = a2

\* the index is the product of a pass that succeeded over the registry and
\* the extensions as they are now
UpToDate ==
    /\ ~scan.failed
    /\ scan.registry = star_handlers_registry /\ scan.activated = activated

Delivered(p) == inv[p].pc = "done" /\ inv[p].response.success
BatchCase(p) ==
    /\ Delivered(p) /\ inv[p].results_to_send # << >>
    /\ UseForward(config, event, inv[p].result_texts)

\* C15 (as claimed): on the batch path (a result was captured, batching is
\* enabled, the extracted text is longer than the threshold, the platform is
\* aiocqhttp) and with no delivery failure, the call makes exactly one send,
\* the combined forward, and it carries every captured result.
C15_BatchSendsAllOnce ==
    \A p \in Procs :
        BatchCase(p) /\ ~DeliveryRaised(p) =>
            /\ Len(inv[p].sends) = 1
            /\ inv[p].sends[1].what = "forward"
            /\ inv[p].sends[1].merged = DOMAIN inv[p].results_to_send

\* a call whose handler completed and whose fan-out decision was against the
\* batch path: it is sending its results one by one, or has returned
IndividualCase(p) ==
    /\ inv[p].pc \in {"send", "done"} /\ inv[p].calls > 0 /\ ~HandlerRaised(p)
    /\ ~UseForward(config, event, inv[p].result_texts)

\* C16: when the batch conditions do not all hold, the sends of a call are
\* the captured results one by one in production order: the k-th send is
\* the send of the k-th captured result, whether or not earlier sends
\* failed; when the call returns every captured result has been attempted
\* exactly once and the payload is the success payload.
C16_OneSendPerResult ==
    \A p \in Procs :
        IndividualCase(p) =>
            /\ \A k \in DOMAIN inv[p].sends :
                  /\ inv[p].sends[k].what = "result"
                  /\ inv[p].sends[k].index = k
                  /\ inv[p].sends[k].merged = {k}
            /\ inv[p].pc = "send" => Len(inv[p].sends) = inv[p].send_i - 1
                                      /\ inv[p].send_i <= Len(inv[p].results_to_send)
            /\ inv[p].pc = "done" =>
                  /\ Len(inv[p].sends) = Len(inv[p].results_to_send)
                  /\ inv[p].response.success
                  /\ inv[p].response.error = NoReason

\* C16 witness: batching is enabled and the text is longer than the
\* threshold, but the platform is not aiocqhttp; the send of the first of
\* two results failed, the second was sent, and the call returned success.
C16_Witness ==
    \E p \in Procs :
        /\ IndividualCase(p) /\ inv[p].pc = "done"
        /\ config.enable_forward
        /\ TotalLength(inv[p].result_texts) > config.forward_threshold
        /\ Len(inv[p].results_to_send) = 2 /\ Len(inv[p].sends) = 2
        /\ ~inv[p].sends[1].ok /\ inv[p].sends[2].ok
        /\ inv[p].response.success

\* the batch path of a call failed: building the combined Node raised, or the
\* combined-forward send raised
BatchFailed(p) ==
    /\ inv[p].pc \in {"send", "done"} /\ inv[p].calls > 0 /\ ~HandlerRaised(p)
    /\ \/ \E i \in DOMAIN inv[p].raised : inv[p].raised[i] = "node"
       \/ /\ inv[p].sends # << >>
          /\ inv[p].sends[1].what = "forward" /\ ~inv[p].sends[1].ok

\* the sends of a call after its attempt at the combined forward
AfterForward(p) ==
    IF inv[p].sends # << >> /\ inv[p].sends[1].what = "forward"
    THEN Tail(inv[p].sends) ELSE inv[p].sends

\* C17: when building the combined container or the combined send fails,
\* the sends that follow are the captured results one by one in production
\* order, each attempted exactly once whether or not earlier ones failed,
\* and the call returns the success payload.
C17_BatchFailureFallsBack ==
    \A p \in Procs :
        BatchFailed(p) =>
            /\ UseForward(config, event, inv[p].result_texts)
            /\ \A k \in DOMAIN AfterForward(p) :
                  /\ AfterForward(p)[k].what = "result"
                  /\ AfterForward(p)[k].index = k
            /\ inv[p].pc = "send" => Len(AfterForward(p)) = inv[p].send_i - 1
                                      /\ inv[p].send_i <= Len(inv[p].results_to_send)
            /\ inv[p].pc = "done" =>
                  /\ Len(AfterForward(p)) = Len(inv[p].results_to_send)
                  /\ inv[p].response.success
                  /\ inv[p].response.error = NoReason

\* C17 witness: the combined forward of two results was sent and raised;
\* both results were then sent one by one, the first of these sends raised
\* too, and the call returned success.
C17_Witness ==
    \E p \in Procs :
        /\ BatchFailed(p) /\ inv[p].pc = "done"
        /\ Len(inv[p].results_to_send) = 2 /\ Len(inv[p].sends) = 3
        /\ inv[p].sends[1].what = "forward" /\ ~inv[p].sends[1].ok
        /\ ~inv[p].sends[2].ok /\ inv[p].sends[3].ok
        /\ inv[p].response.success

\* a call made with as_bot whose handler is running: the handler holds the
\* wrapper
HoldsWrapper(p) == inv[p].wrapped /\ inv[p].pc \in {"iter", "await"}

\* C18: while a handler holds the identity wrapper, get_sender_id on the
\* wrapper is the configured bot identity, every other attribute read on the
\* wrapper is the wrapped event's current value, the text execute_command
\* wrote through the wrapper is on the wrapped event itself, and the wrapped
\* event's own get_sender_id is what it was.
C18_WrapperDelegates ==
    \A p \in Procs :
        HoldsWrapper(p) =>
            /\ inv[p].handler_sender = config.bot_user_id
            /\ WrapperGetAttr(event, config.bot_user_id, "get_sender_id")
                  = config.bot_user_id
            /\ \A name \in EventAttrs :
                  WrapperGetAttr(event, config.bot_user_id, name) = event[name]
            /\ event.message_str = CommandText(inv[p].actual_command, inv[p].args)
            /\ \A v \in {<<"v">>, inv[p].entry_str} :
                  /\ WrapperSetAttr(event, "message_str", v).message_str = v
                  /\ WrapperGetAttr(WrapperSetAttr(event, "message_str", v),
                                    config.bot_user_id, "message_str") = v
                  /\ WrapperSetAttr(event, "message_str", v).sender_id = event.sender_id
            /\ event.sender_id = InitialEvent.sender_id
            /\ GetSenderId(event, FALSE, config.bot_user_id) = InitialEvent.sender_id

\* C18 witness: the handler of an as_bot call is running; the wrapper
\* reports the bot identity, the event its own sender, and the event's text
\* is the one written through the wrapper, not the text it had.
C18_Witness ==
    \E p \in Procs :
        /\ HoldsWrapper(p)
        /\ inv[p].handler_sender = config.bot_user_id
        /\ event.sender_id # config.bot_user_id
        /\ event.message_str # inv[p].entry_str
        /\ event.message_str = CommandText(inv[p].actual_command, inv[p].args)
        /\ inv[p].args # << >>

\* a token @i with i in range of the mention targets
IsMention(token, targets) ==
    /\ Len(token) > 1 /\ token[1] = "@" /\ IsDigit(Tail(token))
    /\ ParseInt(Tail(token)) < Len(targets)

TargetOf(token, targets) == targets[ParseInt(Tail(token)) + 1]

\* " " followed by the tokens joined by single spaces
SpacedText(tokens) == Plain(<<" ">> \o JoinWith(tokens, <<" ">>))

\* the segments the claim describes for a list of tokens: up to the first
\* mention token, the plain tokens before it as one text segment (when there
\* are any) and the mention; then the same for the tokens after it; the
\* tokens after the last mention as a final text segment
RECURSIVE SegmentsOf(_, _)
SegmentsOf(tokens, targets) ==
    LET M == {k \in DOMAIN tokens : IsMention(tokens[k], targets)} IN
    IF tokens = << >> THEN << >>
    ELSE IF M = {} THEN <<SpacedText(tokens)>>
    ELSE LET k == CHOOSE k \in M : \A j \in M : k <= j
             before == SubSeq(tokens, 1, k - 1)
         IN  (IF before = << >> THEN << >> ELSE <<SpacedText(before)>>)
             \o <<At(TargetOf(tokens[k], targets))>>
             \o SegmentsOf(SubSeq(tokens, k + 1, Len(tokens)), targets)

\* the quote segment of a call, when it has one
QuoteOf(p) ==
    IF inv[p].reply_image_url # << >>
    THEN <<Reply(<<Image(inv[p].reply_image_url)>>)>> ELSE << >>

\* a call that has synthesized the body its handler reads, with args and
\* mention targets both present
Synthesized(p) ==
    /\ inv[p].pc = "iter" /\ inv[p].args # << >> /\ inv[p].at_qq_list # << >>

\* args holds a token @i with i in range
HasMentionToken(p) ==
    \E k \in DOMAIN Split(inv[p].args) : IsMention(Split(inv[p].args)[k], inv[p].at_qq_list)

\* C19: when args holds a token @i with i in range of the mention targets,
\* the body is the quote segment if any, text("/" + command), and then, for
\* the tokens of args from left to right, a mention for each token @i in
\* range, preceded by one space-prefixed text segment of the plain tokens
\* buffered since the previous mention when there are any; an out-of-range
\* @i stays text; the tokens left at the end are one final text segment.
\* In particular build(x, "@0 60", ["123"], none) =
\* [text("/x"), mention("123"), text(" 60")].
C19_PlaceholderMode ==
    \A p \in Procs :
        Synthesized(p) /\ HasMentionToken(p) =>
            /\ HeldBody(event, message_obj) =
                  QuoteOf(p) \o <<Plain(<<"/">> \o inv[p].actual_command)>>
                      \o SegmentsOf(Split(inv[p].args), inv[p].at_qq_list)
            /\ ( /\ inv[p].args = <<"@", "0", " ", "6", "0">>
                 /\ inv[p].at_qq_list = <<"123">> /\ inv[p].reply_image_url = << >> )
               => HeldBody(event, message_obj) =
                     <<Plain(<<"/", "x">>), At("123"), Plain(<<" ", "6", "0">>)>>

\* C19 witness: the handler reads the body built for "@1 6  @0" with two
\* targets: the second target, the text " 6", the first target.
C19_Witness ==
    \E p \in Procs :
        /\ Synthesized(p) /\ HasMentionToken(p)
        /\ inv[p].args = <<"@", "1", " ", "6", " ", " ", "@", "0">>
        /\ HeldBody(event, message_obj) =
              <<Plain(<<"/", "x">>), At("456"), Plain(<<" ", "6">>), At("123")>>

\* the output of trailing mode as the claim gives it
TrailingOf(p) ==
    QuoteOf(p) \o <<Plain(<<"/">> \o inv[p].actual_command)>>
        \o [i \in DOMAIN inv[p].at_qq_list |-> At(inv[p].at_qq_list[i])]
        \o <<Plain(<<" ">> \o inv[p].args)>>

\* C20 (as claimed): with args and mention targets both present, placeholder
\* mode is used exactly when args holds a token @i with i in range of the
\* targets; otherwise the body is that of trailing mode: text("/" + command),
\* one mention per target in list order, text(" " + args).  In particular
\* build(x, "60", ["123"], none) = [text("/x"), mention("123"), text(" 60")].
C20_ModeByToken ==
    \A p \in Procs :
        Synthesized(p) =>
            /\ HasMentionToken(p) =>
                  HeldBody(event, message_obj) =
                      QuoteOf(p) \o <<Plain(<<"/">> \o inv[p].actual_command)>>
                          \o SegmentsOf(Split(inv[p].args), inv[p].at_qq_list)
            /\ ~HasMentionToken(p) => HeldBody(event, message_obj) = TrailingOf(p)
            /\ ( /\ inv[p].args = <<"6", "0">>
                 /\ inv[p].at_qq_list = <<"123">> /\ inv[p].reply_image_url = << >> )
               => HeldBody(event, message_obj) =
                     <<Plain(<<"/", "x">>), At("123"), Plain(<<" ", "6", "0">>)>>

\* the extension name holds the category, letters compared without case
CategoryMatches(category, plugin) ==
    LET name == NameChars(plugin) IN
    \E off \in 0..(Len(name) - Len(category)) :
        \A i \in DOMAIN category : LowerChar(category[i]) = LowerChar(name[off + i])

\* the indexed commands a list call has to return: those the gate allows for
\* the caller and whose extension matches the category
Listable(ix, user_id, category) ==
    {c \in DOMAIN ix.cache :
        /\ CanExecute(c, user_id, config, ix.cache, ix.alias).ok
        /\ CategoryMatches(category, ix.cache[c].plugin)}

\* the number of entries in all groups of the payload
RECURSIVE EntriesIn(_, _)
EntriesIn(plugins, names) ==
    IF names = {} THEN 0
    ELSE LET pl == CHOOSE x \in names : TRUE IN
         Cardinality(plugins[pl]) + EntriesIn(plugins, names \ {pl})

\* C21: the payload of list_executable_commands holds exactly the commands of
\* the index it read that _can_execute allows for the calling event and
\* whose extension name contains the category (letters compared without
\* case; every extension when the category is empty), each under the group
\* of its extension with its description and aliases, no group is empty,
\* and total_count is the number of entries in all groups.
C21_ListIsExecutable ==
    listing.success =>
        LET ix == SnapshotOf(listing.seen)
            expected == Listable(ix, listing.sender_id, listing.category)
        IN  /\ listing.sender_id = event.sender_id
            /\ DOMAIN listing.plugins = {ix.cache[c].plugin : c \in expected}
            /\ \A pl \in DOMAIN listing.plugins :
                  listing.plugins[pl] =
                      {[command |-> c, description |-> ix.cache[c].description,
                        aliases |-> ix.cache[c].aliases] :
                          c \in {d \in expected : ix.cache[d].plugin = pl}}
            /\ listing.total_count = EntriesIn(listing.plugins, DOMAIN listing.plugins)
            /\ listing.total_count = Cardinality(expected)

\* C21 witness: a call with category "TOO" lists p of tools, and leaves out
\* a of tools, which the gate refuses to this caller, and x of fishing, which
\* the gate allows.
C21_Witness ==
    /\ listing.success /\ listing.category = <<"T", "O", "O">>
    /\ listing.total_count = 1 /\ DOMAIN listing.plugins = {"tools"}
    /\ \E e \in listing.plugins["tools"] : e.command = nP
    /\ LET ix == SnapshotOf(listing.seen) IN
          /\ {nX, nA, nP} \subseteq DOMAIN ix.cache
          /\ ~CanExecute(nA, listing.sender_id, config, ix.cache, ix.alias).ok
          /\ CanExecute(nX, listing.sender_id, config, ix.cache, ix.alias).ok

\* C22: the single-awaited-return path is entered only for a handler that
\* is no async generator, and never after the iteration has started the
\* handler and collected a result from it; a call that did not enter it has
\* invoked the handler once.
C22_FallbackOnlyWithoutIteration ==
    \A p \in Procs :
        /\ inv[p].fallback =>
              /\ inv[p].handler.proto = "coro"
              /\ inv[p].raised[1] = "NotAsyncIterable"
        /\ (inv[p].handler # NoHandler /\ inv[p].handler.proto = "gen") =>
              /\ ~inv[p].fallback
              /\ inv[p].calls = 1

\* the calls that reached the handler and have finished
Finished == {p \in Procs : inv[p].pc = "done" /\ inv[p].calls > 0}

\* C23: two calls of execute_command on one event are not kept apart: each
\* call captures event.message_str as it finds it, which may be the text
\* another call in flight has set for its handler, and puts back what it
\* captured when it returns; so once both have finished the event holds the
\* text one of them captured, and (the witness) this can be the other
\* call's command text instead of the text before either call.
C23_RestoresWhatItCaptured ==
    /\ \A p \in Finished :
          /\ inv[p].original_msg = inv[p].entry_str
          /\ inv[p].exit_str = inv[p].original_msg
          /\ \/ inv[p].entry_str = InitialEvent.message_str
             \/ \E c \in {nX, nG} : inv[p].entry_str = CommandText(c, << >>)
    /\ Finished = Procs =>
          \E p \in Procs : event.message_str = inv[p].original_msg

\* C23 witness: t2 was entered while t1 waited for its handler, t1 returned
\* first and t2 after it; both have finished and the event holds t1's command
\* text, not the text it held before either call.
C23_Witness ==
    /\ Finished = Procs
    /\ inv["t1"].entry_str = InitialEvent.message_str
    /\ inv["t1"].exit_str = InitialEvent.message_str
    /\ inv["t2"].original_msg = CommandText(inv["t1"].actual_command, inv["t1"].args)
    /\ inv["t1"].response.success /\ inv["t2"].response.success
    /\ event.message_str = inv["t2"].original_msg
    /\ event.message_str # InitialEvent.message_str

\* C24: the gate judges the caller of the event, also for an as_bot call: an
\* admin-only command with allow_admin_commands off is admitted iff the
\* event's sender is in admin_users, whether or not the bot's id is in
\* admin_users; the bot's id is what get_sender_id() gives the invoked
\* handler of an as_bot call (the sender itself without as_bot), and the
\* payload names it only as executed_as.
C24_GateSeesRealCaller ==
    \A p \in Procs :
        /\ (AdminCase(p) /\ ~config.allow_admin_commands) =>
              /\ inv[p].gate.ok = (event.sender_id \in config.admin_users)
              /\ inv[p].calls > 0 => event.sender_id \in config.admin_users
        /\ Gated(p) =>
              inv[p].gate = CanExecute(Given(p), event.sender_id, config,
                                       handler_cache, alias_to_command)
        /\ inv[p].calls > 0 =>
              inv[p].handler_sender =
                  IF inv[p].as_bot THEN config.bot_user_id ELSE event.sender_id
        /\ (inv[p].pc = "done" /\ inv[p].response.success) =>
              inv[p].response.executed_as = IF inv[p].as_bot THEN "bot" ELSE "user"

\* C24 witness: with allow_admin_commands off, an as_bot call of an
\* admin-only command is refused to a caller outside admin_users although the
\* bot's id is in admin_users.
C24_Witness ==
    \E p \in Procs :
        /\ AdminCase(p) /\ ~config.allow_admin_commands /\ inv[p].as_bot
        /\ config.bot_user_id \in config.admin_users
        /\ event.sender_id \notin config.admin_users
        /\ ~inv[p].gate.ok /\ inv[p].calls = 0 /\ inv[p].pc = "done"

\* with allow_admin_commands off, an as_bot call of an admin-only command by
\* a caller in admin_users reaches the handler, which is given the bot's id,
\* while the bot's id is not in admin_users
C24_AdmittedWitness ==
    \E p \in Procs :
        /\ AdminCase(p) /\ ~config.allow_admin_commands /\ inv[p].as_bot
        /\ config.bot_user_id \notin config.admin_users
        /\ event.sender_id \in config.admin_users
        /\ inv[p].gate.ok /\ inv[p].calls > 0
        /\ inv[p].handler_sender = config.bot_user_id

\* C25: within one call every send comes after the handler has finished:
\* while the handler is iterated or awaited nothing has been sent; a step
\* that sends is a step of the fan-out and leaves the collected results as
\* they are; nothing is collected once a send has happened; and a call whose
\* handler raised, after any number of results, returns without any send
\* and with a failure payload that holds none of the collected content.
C25_SendsAfterHandler ==
    [][\A p \in Procs :
          LET a == inv[p]
              b == inv'[p]
          IN  /\ b.pc \in {"iter", "await"} => b.sends = << >>
              /\ Len(b.sends) > Len(a.sends) =>
                    /\ a.pc \in {"forward", "send"}
                    /\ b.results_to_send = a.results_to_send
                    /\ b.produced = a.produced
                    /\ ~HandlerRaised(p)'
              /\ (b.pc # "idle" /\ b.results_to_send # a.results_to_send) =>
                    a.sends = << >> /\ b.sends = << >>
              /\ (b.pc = "done" /\ HandlerRaised(p)') =>
                    /\ b.sends = << >>
                    /\ ~b.response.success
                    /\ b.response.result = << >>
                    /\ b.response.images = << >>]_vars

\* C25 witness: a handler raised after two results whose text had been
\* collected; the call returned with no send and an empty failure payload.
C25_Witness ==
    \E p \in Procs :
        /\ inv[p].pc = "done" /\ HandlerRaised(p)
        /\ inv[p].produced = 2 /\ Len(inv[p].results_to_send) = 2
        /\ inv[p].result_texts # << >>
        /\ inv[p].sends = << >>
        /\ ~inv[p].response.success
        /\ inv[p].response.result = << >> /\ inv[p].response.images = << >>

=============================================================================
